---- MODULE Spec2Model ----
(***************************************************************************)
(* Model of the hold-a-coin account domain: the checked Amount arithmetic, *)
(* the Account transaction state machine (Account::apply) and the          *)
(* AccountStorage that routes a transaction to its client's account.       *)
(***************************************************************************)
EXTENDS Integers, Sequences, FiniteSets, TLC

(* ------------------------------ bounds --------------------------------- *)

\* Width in bits of the unsigned integer behind Amount (u64 in the source,
\* scaled down so that overflow is reachable).
W == 2

\* Transaction identifiers are 1..MaxTx.
MaxTx == 2

\* Client identifiers are 1..MaxClients.
MaxClients == 2

\* Cap on the number of deposit entries held by the whole store.
MaxDeposits == 2

Modulus == 2 ^ W
MaxU == Modulus - 1

Amounts == 0 .. MaxU
TxIds == 1 .. MaxTx
ClientIds == 1 .. MaxClients

\* The amounts the input rows carry: both ends of the range and their
\* neighbours (the whole range when W = 2).
AmountInputs == {0, 1, MaxU - 1, MaxU}

(* ------------------------------ Amount --------------------------------- *)

AmountOk(v) == [err |-> "None", val |-> v]
AmountErr(e) == [err |-> e, val |-> 0]

\* u64::overflowing_add: the wrapped sum and the overflow flag.
overflowing_add(a, b) == [val |-> (a + b) % Modulus, over |-> a + b >= Modulus]

\* u64::overflowing_sub: the wrapped difference and the underflow flag.
overflowing_sub(a, b) == [val |-> (a - b + Modulus) % Modulus, over |-> b > a]

Amount_new == 0

\* Variant: the overflow flag is dropped and the wrapped sum returned
\* (wrapping_add).
Amount_add_wrapping(a, b) == AmountOk(overflowing_add(a, b).val)

Amount_add(a, b) ==
    LET r == overflowing_add(a, b)
    IN  IF r.over THEN AmountErr("Arithmetic") ELSE AmountOk(r.val)

Amount_sub(a, b) ==
    LET r == overflowing_sub(a, b)
    IN  IF r.over THEN AmountErr("Arithmetic") ELSE AmountOk(r.val)

\* Result::map_err(|_| Error::InsufficientFunds)
map_err_InsufficientFunds(r) ==
    IF r.err # "None" THEN AmountErr("InsufficientFunds") ELSE r

(* --------------------------- Transactions ------------------------------ *)

Transaction ==
    [kind : {"Deposit", "Withdrawal"}, tx : TxIds, amount : Amounts]
        \cup [kind : {"Dispute", "Resolve", "Chargeback"}, tx : TxIds]

(* ------------------------------ Account -------------------------------- *)

Deposit_new(tx, amount) == [tx |-> tx, amount |-> amount, disputed |-> FALSE]

Account_new(client_id) ==
    [owner |-> client_id, available |-> Amount_new, held |-> Amount_new,
     locked |-> FALSE, deposits |-> << >>]

\* Variant: the log is searched from its end (rfind), giving the last entry
\* with that tx.
find_last(deposits, other_tx) ==
    IF \E i \in 1 .. Len(deposits) : deposits[i].tx = other_tx
    THEN CHOOSE i \in 1 .. Len(deposits) :
            /\ deposits[i].tx = other_tx
            /\ \A j \in (i + 1) .. Len(deposits) : deposits[j].tx # other_tx
    ELSE 0

\* deposits.iter().find(|d| d.tx == other_tx): index of the first entry with
\* that tx, 0 when there is none.
find(deposits, other_tx) ==
    IF \E i \in 1 .. Len(deposits) : deposits[i].tx = other_tx
    THEN CHOOSE i \in 1 .. Len(deposits) :
            /\ deposits[i].tx = other_tx
            /\ \A j \in 1 .. (i - 1) : deposits[j].tx # other_tx
    ELSE 0

Applied(acc, res) == [acc |-> acc, res |-> res]

\* Variant: the deposit is refused when the total available + held would
\* overflow, not only when available would.
apply_Deposit_total_checked(acc, id, amount) ==
    LET new_avail == Amount_add(acc.available, amount)
        new_total == IF new_avail.err # "None" THEN new_avail
                     ELSE Amount_add(new_avail.val, acc.held)
    IN  IF new_total.err # "None" THEN Applied(acc, new_total.err)
        ELSE Applied([acc EXCEPT !.available = new_avail.val,
                                 !.deposits = Append(@, Deposit_new(id, amount))],
                     "Ok")

\* Variant: the new entry is put at the front of the log (insert(0, ..)).
apply_Deposit_prepend(acc, id, amount) ==
    LET new_avail == Amount_add(acc.available, amount)
    IN  IF new_avail.err # "None" THEN Applied(acc, new_avail.err)
        ELSE Applied([acc EXCEPT !.available = new_avail.val,
                                 !.deposits = <<Deposit_new(id, amount)>> \o @],
                     "Ok")

apply_Deposit(acc, id, amount) ==
    LET new_avail == Amount_add(acc.available, amount)
    IN  IF new_avail.err # "None" THEN Applied(acc, new_avail.err)
        ELSE Applied([acc EXCEPT !.available = new_avail.val,
                                 !.deposits = Append(@, Deposit_new(id, amount))],
                     "Ok")

\* Variant: the whole available amount cannot be withdrawn (>= for >).
apply_Withdrawal_strict(acc, amount) ==
    LET new_avail == map_err_InsufficientFunds(Amount_sub(acc.available, amount))
    IN  IF new_avail.err # "None" \/ new_avail.val = 0
        THEN Applied(acc, "InsufficientFunds")
        ELSE Applied([acc EXCEPT !.available = new_avail.val], "Ok")

\* Variant: a withdrawal larger than available takes the rest from held.
apply_Withdrawal_from_held(acc, amount) ==
    LET new_avail == map_err_InsufficientFunds(Amount_sub(acc.available, amount))
        total == Amount_add(acc.available, acc.held)
    IN  IF new_avail.err = "None"
        THEN Applied([acc EXCEPT !.available = new_avail.val], "Ok")
        ELSE IF total.err = "None" /\ total.val >= amount
        THEN Applied([acc EXCEPT !.available = 0,
                                 !.held = total.val - amount], "Ok")
        ELSE Applied(acc, "InsufficientFunds")

apply_Withdrawal(acc, amount) ==
    LET new_avail == map_err_InsufficientFunds(Amount_sub(acc.available, amount))
    IN  IF new_avail.err # "None" THEN Applied(acc, new_avail.err)
        ELSE Applied([acc EXCEPT !.available = new_avail.val], "Ok")

\* Variant: available is assigned before the new held amount is computed, so
\* an overflow of held leaves the account half updated.
apply_Dispute_partial(acc, other_tx) ==
    LET i == find(acc.deposits, other_tx)
    IN  IF i # 0 /\ ~acc.deposits[i].disputed
        THEN LET dep == acc.deposits[i]
                 new_avail == map_err_InsufficientFunds(Amount_sub(acc.available, dep.amount))
                 new_held == Amount_add(acc.held, dep.amount)
             IN  IF new_avail.err # "None" THEN Applied(acc, new_avail.err)
                 ELSE IF new_held.err # "None"
                      THEN Applied([acc EXCEPT !.available = new_avail.val], new_held.err)
                 ELSE Applied([acc EXCEPT !.available = new_avail.val,
                                          !.held = new_held.val,
                                          !.deposits[i].disputed = TRUE],
                              "Ok")
        ELSE Applied(acc, "Ok")

\* Variant: the new held amount is checked before the funds, so an account
\* short of funds whose held amount would also overflow reports Arithmetic.
apply_Dispute_held_first(acc, other_tx) ==
    LET i == find(acc.deposits, other_tx)
    IN  IF i # 0 /\ ~acc.deposits[i].disputed
        THEN LET dep == acc.deposits[i]
                 new_avail == map_err_InsufficientFunds(Amount_sub(acc.available, dep.amount))
                 new_held == Amount_add(acc.held, dep.amount)
             IN  IF new_held.err # "None" THEN Applied(acc, new_held.err)
                 ELSE IF new_avail.err # "None" THEN Applied(acc, new_avail.err)
                 ELSE Applied([acc EXCEPT !.available = new_avail.val,
                                          !.held = new_held.val,
                                          !.deposits[i].disputed = TRUE],
                              "Ok")
        ELSE Applied(acc, "Ok")

\* Variant: the amount is put on hold without being taken from available.
apply_Dispute_keeps_available(acc, other_tx) ==
    LET i == find(acc.deposits, other_tx)
    IN  IF i # 0 /\ ~acc.deposits[i].disputed
        THEN LET dep == acc.deposits[i]
                 new_avail == map_err_InsufficientFunds(Amount_sub(acc.available, dep.amount))
                 new_held == Amount_add(acc.held, dep.amount)
             IN  IF new_avail.err # "None" THEN Applied(acc, new_avail.err)
                 ELSE IF new_held.err # "None" THEN Applied(acc, new_held.err)
                 ELSE Applied([acc EXCEPT !.held = new_held.val,
                                          !.deposits[i].disputed = TRUE],
                              "Ok")
        ELSE Applied(acc, "Ok")

\* Variant: the entry looked for is the first open one with that tx
\* (find(|d| d.tx == other_tx && !d.disputed)).
apply_Dispute_next_open(acc, other_tx) ==
    LET S == {j \in 1 .. Len(acc.deposits) :
                 acc.deposits[j].tx = other_tx /\ ~acc.deposits[j].disputed}
        i == IF S = {} THEN 0 ELSE CHOOSE j \in S : \A k \in S : j <= k
    IN  IF i # 0
        THEN LET dep == acc.deposits[i]
                 new_avail == map_err_InsufficientFunds(Amount_sub(acc.available, dep.amount))
                 new_held == Amount_add(acc.held, dep.amount)
             IN  IF new_avail.err # "None" THEN Applied(acc, new_avail.err)
                 ELSE IF new_held.err # "None" THEN Applied(acc, new_held.err)
                 ELSE Applied([acc EXCEPT !.available = new_avail.val,
                                          !.held = new_held.val,
                                          !.deposits[i].disputed = TRUE],
                              "Ok")
        ELSE Applied(acc, "Ok")

apply_Dispute(acc, other_tx) ==
    LET i == find(acc.deposits, other_tx)
    IN  IF i # 0 /\ ~acc.deposits[i].disputed
        THEN LET dep == acc.deposits[i]
                 new_avail == map_err_InsufficientFunds(Amount_sub(acc.available, dep.amount))
                 new_held == Amount_add(acc.held, dep.amount)
             IN  IF new_avail.err # "None" THEN Applied(acc, new_avail.err)
                 ELSE IF new_held.err # "None" THEN Applied(acc, new_held.err)
                 ELSE Applied([acc EXCEPT !.available = new_avail.val,
                                          !.held = new_held.val,
                                          !.deposits[i].disputed = TRUE],
                              "Ok")
        ELSE Applied(acc, "Ok")

\* Variant: the new available amount is checked before the held funds.
apply_Resolve_avail_first(acc, other_tx) ==
    LET i == find(acc.deposits, other_tx)
    IN  IF i # 0 /\ acc.deposits[i].disputed
        THEN LET dep == acc.deposits[i]
                 new_held == map_err_InsufficientFunds(Amount_sub(acc.held, dep.amount))
                 new_avail == Amount_add(acc.available, dep.amount)
             IN  IF new_avail.err # "None" THEN Applied(acc, new_avail.err)
                 ELSE IF new_held.err # "None" THEN Applied(acc, new_held.err)
                 ELSE Applied([acc EXCEPT !.available = new_avail.val,
                                          !.held = new_held.val,
                                          !.deposits[i].disputed = FALSE],
                              "Ok")
        ELSE Applied(acc, "Ok")

\* Variant: the funds are released but the entry stays disputed.
apply_Resolve_keeps_flag(acc, other_tx) ==
    LET i == find(acc.deposits, other_tx)
    IN  IF i # 0 /\ acc.deposits[i].disputed
        THEN LET dep == acc.deposits[i]
                 new_held == map_err_InsufficientFunds(Amount_sub(acc.held, dep.amount))
                 new_avail == Amount_add(acc.available, dep.amount)
             IN  IF new_held.err # "None" THEN Applied(acc, new_held.err)
                 ELSE IF new_avail.err # "None" THEN Applied(acc, new_avail.err)
                 ELSE Applied([acc EXCEPT !.available = new_avail.val,
                                          !.held = new_held.val],
                              "Ok")
        ELSE Applied(acc, "Ok")

apply_Resolve(acc, other_tx) ==
    LET i == find(acc.deposits, other_tx)
    IN  IF i # 0 /\ acc.deposits[i].disputed
        THEN LET dep == acc.deposits[i]
                 new_held == map_err_InsufficientFunds(Amount_sub(acc.held, dep.amount))
                 new_avail == Amount_add(acc.available, dep.amount)
             IN  IF new_held.err # "None" THEN Applied(acc, new_held.err)
                 ELSE IF new_avail.err # "None" THEN Applied(acc, new_avail.err)
                 ELSE Applied([acc EXCEPT !.available = new_avail.val,
                                          !.held = new_held.val,
                                          !.deposits[i].disputed = FALSE],
                              "Ok")
        ELSE Applied(acc, "Ok")

\* Variant: the chargeback also ends the dispute of the entry.
apply_Chargeback_clears(acc, other_tx) ==
    LET i == find(acc.deposits, other_tx)
    IN  IF i # 0 /\ acc.deposits[i].disputed
        THEN LET dep == acc.deposits[i]
                 new_held == map_err_InsufficientFunds(Amount_sub(acc.held, dep.amount))
             IN  IF new_held.err # "None" THEN Applied(acc, new_held.err)
                 ELSE Applied([acc EXCEPT !.held = new_held.val,
                                          !.locked = TRUE,
                                          !.deposits[i].disputed = FALSE],
                              "Ok")
        ELSE Applied(acc, "Ok")

\* Variant: the guard on the disputed flag is missing.
apply_Chargeback_unguarded(acc, other_tx) ==
    LET i == find(acc.deposits, other_tx)
    IN  IF i # 0
        THEN LET dep == acc.deposits[i]
                 new_held == map_err_InsufficientFunds(Amount_sub(acc.held, dep.amount))
             IN  IF new_held.err # "None" THEN Applied(acc, new_held.err)
                 ELSE Applied([acc EXCEPT !.held = new_held.val,
                                          !.locked = TRUE],
                              "Ok")
        ELSE Applied(acc, "Ok")

\* Variant: the flag is flipped, so a second chargeback unlocks the account.
apply_Chargeback_toggles(acc, other_tx) ==
    LET i == find(acc.deposits, other_tx)
    IN  IF i # 0 /\ acc.deposits[i].disputed
        THEN LET dep == acc.deposits[i]
                 new_held == map_err_InsufficientFunds(Amount_sub(acc.held, dep.amount))
             IN  IF new_held.err # "None" THEN Applied(acc, new_held.err)
                 ELSE Applied([acc EXCEPT !.held = new_held.val,
                                          !.locked = ~acc.locked],
                              "Ok")
        ELSE Applied(acc, "Ok")

apply_Chargeback(acc, other_tx) ==
    LET i == find(acc.deposits, other_tx)
    IN  IF i # 0 /\ acc.deposits[i].disputed
        THEN LET dep == acc.deposits[i]
                 new_held == map_err_InsufficientFunds(Amount_sub(acc.held, dep.amount))
             IN  IF new_held.err # "None" THEN Applied(acc, new_held.err)
                 ELSE Applied([acc EXCEPT !.held = new_held.val,
                                          !.locked = TRUE],
                              "Ok")
        ELSE Applied(acc, "Ok")

\* Variant: a locked account is frozen, every transaction on it is ignored.
Account_apply_frozen(acc, t) ==
    IF acc.locked THEN Applied(acc, "Ok")
    ELSE CASE t.kind = "Deposit"    -> apply_Deposit(acc, t.tx, t.amount)
           [] t.kind = "Withdrawal" -> apply_Withdrawal(acc, t.amount)
           [] t.kind = "Dispute"    -> apply_Dispute(acc, t.tx)
           [] t.kind = "Resolve"    -> apply_Resolve(acc, t.tx)
           [] t.kind = "Chargeback" -> apply_Chargeback(acc, t.tx)

\* Account::apply: the account after the call and the result of the call.
Account_apply(acc, t) ==
    CASE t.kind = "Deposit"    -> apply_Deposit(acc, t.tx, t.amount)
      [] t.kind = "Withdrawal" -> apply_Withdrawal(acc, t.amount)
      [] t.kind = "Dispute"    -> apply_Dispute(acc, t.tx)
      [] t.kind = "Resolve"    -> apply_Resolve(acc, t.tx)
      [] t.kind = "Chargeback" -> apply_Chargeback(acc, t.tx)

(* --------------------------- AccountStorage ---------------------------- *)

VARIABLES
    accounts,   \* AccountStorage.accounts: the map ClientId -> Account
    charged,    \* history: <<client, index>> of each deposit entry on which a
                \* Chargeback has succeeded
    ledger      \* history: per client, the amounts of the successful Deposits
                \* minus those of the successful Withdrawals and Chargebacks

vars == <<accounts, charged, ledger>>

\* Variant: the account is inserted without looking for an existing one, so
\* every call starts the client over with a new account.
get_client_account_reset(accs, client_id) ==
    [c \in DOMAIN accs \cup {client_id} |->
        IF c = client_id THEN Account_new(client_id) ELSE accs[c]]

\* AccountStorage::get_client_account: the map after the lookup, with the
\* account created when it was missing.
get_client_account(accs, client_id) ==
    IF client_id \notin DOMAIN accs
    THEN [c \in DOMAIN accs \cup {client_id} |->
            IF c = client_id THEN Account_new(client_id) ELSE accs[c]]
    ELSE accs

\* Variant: a Dispute, Resolve or Chargeback whose client holds no deposit
\* with that tx is routed to an account that does, as if tx were the key.
apply_transaction_by_tx(accs, client_id, t) ==
    LET got == get_client_account(accs, client_id)
        owners == {c \in DOMAIN got : find(got[c].deposits, t.tx) # 0}
        target == IF /\ t.kind \in {"Dispute", "Resolve", "Chargeback"}
                     /\ owners # {}
                     /\ client_id \notin owners
                  THEN CHOOSE c \in owners : TRUE
                  ELSE client_id
        r == Account_apply(got[target], t)
    IN  [accounts |-> [got EXCEPT ![target] = r.acc], res |-> r.res]

\* AccountStorage::apply_transaction: the map after the call and its result.
apply_transaction(accs, client_id, t) ==
    LET got == get_client_account(accs, client_id)
        r == Account_apply(got[client_id], t)
    IN  [accounts |-> [got EXCEPT ![client_id] = r.acc], res |-> r.res]

\* The number of deposit entries in the whole store.
RECURSIVE TotalDeposits(_, _)
TotalDeposits(accs, S) ==
    IF S = {} THEN 0
    ELSE LET c == CHOOSE x \in S : TRUE
         IN  Len(accs[c].deposits) + TotalDeposits(accs, S \ {c})

\* AccountStorage::new
Init ==
    /\ accounts = << >>
    /\ charged = {}
    /\ ledger = [c \in ClientIds |-> 0]

\* The history after a row: a Chargeback that found its entry disputed and
\* returned Ok has succeeded on that entry.
ChargedAfter(accs, ch, client_id, t) ==
    LET before == get_client_account(accs, client_id)[client_id]
        i == find(before.deposits, t.tx)
    IN  IF /\ t.kind = "Chargeback"
           /\ i # 0
           /\ before.deposits[i].disputed
           /\ Account_apply(before, t).res = "Ok"
        THEN ch \cup {<<client_id, i>>}
        ELSE ch

\* The history after a row: a Deposit that returned Ok has paid its amount
\* in, a Withdrawal that returned Ok has paid its amount out, a Chargeback
\* that found its entry disputed and returned Ok has removed that entry's
\* amount.
LedgerAfter(accs, led, client_id, t) ==
    LET before == get_client_account(accs, client_id)[client_id]
        i == find(before.deposits, t.tx)
        delta == IF Account_apply(before, t).res # "Ok" THEN 0
                 ELSE CASE t.kind = "Deposit" -> t.amount
                        [] t.kind = "Withdrawal" -> 0 - t.amount
                        [] t.kind = "Chargeback" ->
                              IF i # 0 /\ before.deposits[i].disputed
                              THEN 0 - before.deposits[i].amount
                              ELSE 0
                        [] OTHER -> 0
    IN  [led EXCEPT ![client_id] = @ + delta]

\* The client whose account the rows of this run name.
FirstClient == CHOOSE c \in ClientIds : \A d \in ClientIds : c <= d

\* The rows of process_input, one action per transaction type.  A row whose
\* transaction fails is reported and the loop goes on with the next row.
DepositStep ==
    \E id \in TxIds, a \in AmountInputs :
        LET t == [kind |-> "Deposit", tx |-> id, amount |-> a]
        IN  /\ TotalDeposits(accounts, DOMAIN accounts) < MaxDeposits
            /\ accounts' = apply_transaction(accounts, FirstClient, t).accounts
            /\ charged' = ChargedAfter(accounts, charged, FirstClient, t)
            /\ ledger' = LedgerAfter(accounts, ledger, FirstClient, t)

WithdrawalStep ==
    \E id \in TxIds, a \in AmountInputs :
        LET t == [kind |-> "Withdrawal", tx |-> id, amount |-> a]
        IN  /\ accounts' = apply_transaction(accounts, FirstClient, t).accounts
            /\ charged' = ChargedAfter(accounts, charged, FirstClient, t)
            /\ ledger' = LedgerAfter(accounts, ledger, FirstClient, t)

DisputeStep ==
    \E id \in TxIds :
        LET t == [kind |-> "Dispute", tx |-> id]
        IN  /\ accounts' = apply_transaction(accounts, FirstClient, t).accounts
            /\ charged' = ChargedAfter(accounts, charged, FirstClient, t)
            /\ ledger' = LedgerAfter(accounts, ledger, FirstClient, t)

ResolveStep ==
    \E id \in TxIds :
        LET t == [kind |-> "Resolve", tx |-> id]
        IN  /\ accounts' = apply_transaction(accounts, FirstClient, t).accounts
            /\ charged' = ChargedAfter(accounts, charged, FirstClient, t)
            /\ ledger' = LedgerAfter(accounts, ledger, FirstClient, t)

ChargebackStep ==
    \E id \in TxIds :
        LET t == [kind |-> "Chargeback", tx |-> id]
        IN  /\ accounts' = apply_transaction(accounts, FirstClient, t).accounts
            /\ charged' = ChargedAfter(accounts, charged, FirstClient, t)
            /\ ledger' = LedgerAfter(accounts, ledger, FirstClient, t)

Next ==
    \/ DepositStep
    \/ WithdrawalStep
    \/ DisputeStep
    \/ ResolveStep
    \/ ChargebackStep

Spec == Init /\ [][Next]_vars

(* ------------------------ a run over two clients ----------------------- *)

\* The clients the rows of a run over two accounts name: the two least ids.
\* The other ids stay clients the store has never seen.
RowClients ==
    LET rest == ClientIds \ {FirstClient}
    IN  {FirstClient} \cup {c \in rest : \A d \in rest : c <= d}

\* The rows of such a run: each deposit and withdrawal is of one unit.
StoreRows ==
    [kind : {"Deposit", "Withdrawal"}, tx : TxIds, amount : {1}]
        \cup [kind : {"Dispute", "Resolve", "Chargeback"}, tx : TxIds]

StoreDepositStep ==
    \E c \in RowClients, t \in StoreRows :
        /\ t.kind = "Deposit"
        /\ TotalDeposits(accounts, DOMAIN accounts) < MaxDeposits
        /\ accounts' = apply_transaction(accounts, c, t).accounts
        /\ charged' = ChargedAfter(accounts, charged, c, t)
        /\ ledger' = LedgerAfter(accounts, ledger, c, t)

StoreWithdrawalStep ==
    \E c \in RowClients, t \in StoreRows :
        /\ t.kind = "Withdrawal"
        /\ accounts' = apply_transaction(accounts, c, t).accounts
        /\ charged' = ChargedAfter(accounts, charged, c, t)
        /\ ledger' = LedgerAfter(accounts, ledger, c, t)

StoreDisputeStep ==
    \E c \in RowClients, t \in StoreRows :
        /\ t.kind = "Dispute"
        /\ accounts' = apply_transaction(accounts, c, t).accounts
        /\ charged' = ChargedAfter(accounts, charged, c, t)
        /\ ledger' = LedgerAfter(accounts, ledger, c, t)

StoreResolveStep ==
    \E c \in RowClients, t \in StoreRows :
        /\ t.kind = "Resolve"
        /\ accounts' = apply_transaction(accounts, c, t).accounts
        /\ charged' = ChargedAfter(accounts, charged, c, t)
        /\ ledger' = LedgerAfter(accounts, ledger, c, t)

StoreChargebackStep ==
    \E c \in RowClients, t \in StoreRows :
        /\ t.kind = "Chargeback"
        /\ accounts' = apply_transaction(accounts, c, t).accounts
        /\ charged' = ChargedAfter(accounts, charged, c, t)
        /\ ledger' = LedgerAfter(accounts, ledger, c, t)

StoreNext ==
    \/ StoreDepositStep
    \/ StoreWithdrawalStep
    \/ StoreDisputeStep
    \/ StoreResolveStep
    \/ StoreChargebackStep

StoreSpec == Init /\ [][StoreNext]_vars

(* ----------------- a run that fills one client's account ---------------- *)

\* The amounts of the rows of such a run: one unit and the rest of the
\* range, so that two deposits bring the account to the largest amount.
FillAmounts == {1, MaxU - 1}

\* The rows of such a run, all of them of the first client.
FillRows ==
    [kind : {"Deposit", "Withdrawal"}, tx : TxIds, amount : FillAmounts]
        \cup [kind : {"Dispute", "Resolve", "Chargeback"}, tx : TxIds]

FillDepositStep ==
    \E t \in FillRows :
        /\ t.kind = "Deposit"
        /\ TotalDeposits(accounts, DOMAIN accounts) < MaxDeposits
        /\ accounts' = apply_transaction(accounts, FirstClient, t).accounts
        /\ charged' = ChargedAfter(accounts, charged, FirstClient, t)
        /\ ledger' = LedgerAfter(accounts, ledger, FirstClient, t)

FillWithdrawalStep ==
    \E t \in FillRows :
        /\ t.kind = "Withdrawal"
        /\ accounts' = apply_transaction(accounts, FirstClient, t).accounts
        /\ charged' = ChargedAfter(accounts, charged, FirstClient, t)
        /\ ledger' = LedgerAfter(accounts, ledger, FirstClient, t)

FillDisputeStep ==
    \E t \in FillRows :
        /\ t.kind = "Dispute"
        /\ accounts' = apply_transaction(accounts, FirstClient, t).accounts
        /\ charged' = ChargedAfter(accounts, charged, FirstClient, t)
        /\ ledger' = LedgerAfter(accounts, ledger, FirstClient, t)

FillResolveStep ==
    \E t \in FillRows :
        /\ t.kind = "Resolve"
        /\ accounts' = apply_transaction(accounts, FirstClient, t).accounts
        /\ charged' = ChargedAfter(accounts, charged, FirstClient, t)
        /\ ledger' = LedgerAfter(accounts, ledger, FirstClient, t)

FillChargebackStep ==
    \E t \in FillRows :
        /\ t.kind = "Chargeback"
        /\ accounts' = apply_transaction(accounts, FirstClient, t).accounts
        /\ charged' = ChargedAfter(accounts, charged, FirstClient, t)
        /\ ledger' = LedgerAfter(accounts, ledger, FirstClient, t)

FillNext ==
    \/ FillDepositStep
    \/ FillWithdrawalStep
    \/ FillDisputeStep
    \/ FillResolveStep
    \/ FillChargebackStep

FillSpec == Init /\ [][FillNext]_vars

(* ----------------------------- properties ------------------------------ *)

\* The accounts of the store: every state Account::apply can be handed (the
\* new account is among them after a first row that fails or does nothing).
AccountStates == {accounts[c] : c \in DOMAIN accounts}

\* The index of the first entry of the log that carries tx, 0 without one.
FirstWith(deposits, tx) ==
    LET S == {i \in 1 .. Len(deposits) : deposits[i].tx = tx}
    IN  IF S = {} THEN 0 ELSE CHOOSE i \in S : \A j \in S : i <= j

Failed(res) == res \in {"Arithmetic", "InsufficientFunds"}

\* C1: in every reachable account state, a transaction on which
\* Account::apply returns an error (Arithmetic or InsufficientFunds) leaves
\* available, held, locked and the whole deposit log as they were.
FailedApplyChangesNothing ==
    \A acc \in AccountStates : \A t \in Transaction :
        LET r == Account_apply(acc, t)
        IN  /\ r.res \in {"Ok", "Arithmetic", "InsufficientFunds"}
            /\ Failed(r.res) =>
                 /\ r.acc.available = acc.available
                 /\ r.acc.held = acc.held
                 /\ r.acc.locked = acc.locked
                 /\ r.acc.deposits = acc.deposits

\* C1 witness: a reachable account on which a Dispute passes the funds check
\* and then fails on the overflow of held, the one failure that comes after a
\* first successful computation.
DisputeFailsAfterFundsCheck ==
    \E c \in DOMAIN accounts : \E tx \in TxIds :
        LET acc == accounts[c]
            i == FirstWith(acc.deposits, tx)
        IN  /\ i # 0
            /\ ~acc.deposits[i].disputed
            /\ acc.deposits[i].amount > 0
            /\ acc.deposits[i].amount <= acc.available
            /\ Account_apply(acc, [kind |-> "Dispute", tx |-> tx]).res = "Arithmetic"

\* C2 as claimed: once a Chargeback has succeeded on a deposit entry, no
\* Dispute, Resolve or Chargeback naming its tx changes available, held,
\* locked or the entry's disputed flag.
ChargedBackIsTerminal ==
    \A p \in charged :
        LET acc == accounts[p[1]]
            i == p[2]
        IN  \A kind \in {"Dispute", "Resolve", "Chargeback"} :
                LET r == Account_apply(acc, [kind |-> kind, tx |-> acc.deposits[i].tx])
                IN  /\ r.acc.available = acc.available
                    /\ r.acc.held = acc.held
                    /\ r.acc.locked = acc.locked
                    /\ r.acc.deposits[i].disputed = acc.deposits[i].disputed

\* The total print_output computes for an account: available.add(held).
report_total(acc) == Amount_add(acc.available, acc.held)

\* C3 as claimed: in every reachable account state available + held fits the
\* unsigned range, so the total computed for the report never fails.
TotalNeverOverflows ==
    \A c \in DOMAIN accounts :
        /\ accounts[c].available + accounts[c].held <= MaxU
        /\ report_total(accounts[c]).err = "None"

\* C4: Dispute(tx) on an account whose first entry with tx exists and is not
\* disputed, amt being its amount: InsufficientFunds when amt > available
\* (also when held + amt would overflow); otherwise Arithmetic when
\* held + amt overflows; otherwise Ok with available decreased by amt, held
\* increased by amt, the entry's disputed flag set, and locked and every
\* other entry unchanged.
DisputeOfOpenDeposit ==
    \A acc \in AccountStates : \A tx \in TxIds :
        LET i == FirstWith(acc.deposits, tx)
            r == Account_apply(acc, [kind |-> "Dispute", tx |-> tx])
        IN  (i # 0 /\ ~acc.deposits[i].disputed) =>
              LET amt == acc.deposits[i].amount
              IN  IF amt > acc.available
                    THEN r.res = "InsufficientFunds"
                  ELSE IF acc.held + amt > MaxU
                    THEN r.res = "Arithmetic"
                  ELSE /\ r.res = "Ok"
                       /\ r.acc = [acc EXCEPT !.available = acc.available - amt,
                                              !.held = acc.held + amt,
                                              !.deposits[i].disputed = TRUE]

\* C4 witness: an account with a deposit under dispute (a Dispute has moved
\* its amount to held) and an open deposit that is both short of funds and
\* too large for held: the Dispute of it reports InsufficientFunds.
DisputeShortAndOverflowing ==
    \E c \in DOMAIN accounts : \E tx \in TxIds :
        LET acc == accounts[c]
            i == FirstWith(acc.deposits, tx)
        IN  /\ i # 0
            /\ ~acc.deposits[i].disputed
            /\ acc.deposits[i].amount > acc.available
            /\ acc.held + acc.deposits[i].amount > MaxU
            /\ \E j \in 1 .. Len(acc.deposits) :
                   acc.deposits[j].disputed /\ acc.deposits[j].amount > 0
            /\ Account_apply(acc, [kind |-> "Dispute", tx |-> tx]).res = "InsufficientFunds"

\* C5: Chargeback(tx) on an account whose first entry with tx exists and is
\* disputed, amt being its amount: when amt <= held, Ok with held decreased
\* by amt and locked set, available and the deposit log (the entry's
\* disputed flag included) unchanged; when amt > held, InsufficientFunds.
ChargebackOfDisputedDeposit ==
    \A acc \in AccountStates : \A tx \in TxIds :
        LET i == FirstWith(acc.deposits, tx)
            r == Account_apply(acc, [kind |-> "Chargeback", tx |-> tx])
        IN  (i # 0 /\ acc.deposits[i].disputed) =>
              LET amt == acc.deposits[i].amount
              IN  IF amt <= acc.held
                    THEN /\ r.res = "Ok"
                         /\ r.acc = [acc EXCEPT !.held = acc.held - amt,
                                                !.locked = TRUE]
                    ELSE r.res = "InsufficientFunds"

\* C5 witness: a locked account with a deposit a Chargeback has succeeded on,
\* its entry still disputed and its amount now above held, so that the next
\* Chargeback of it reports InsufficientFunds.
ChargedBackAndShort ==
    \E p \in charged :
        LET acc == accounts[p[1]]
            dep == acc.deposits[p[2]]
        IN  /\ acc.locked
            /\ dep.disputed
            /\ dep.amount > acc.held
            /\ FirstWith(acc.deposits, dep.tx) = p[2]
            /\ Account_apply(acc, [kind |-> "Chargeback", tx |-> dep.tx]).res
                   = "InsufficientFunds"

\* C6: Resolve(tx) on an account whose first entry with tx exists and is
\* disputed, amt being its amount: InsufficientFunds when amt > held;
\* otherwise Arithmetic when available + amt overflows; otherwise Ok with
\* held decreased by amt, available increased by amt, the entry's disputed
\* flag cleared and locked unchanged.
ResolveOfDisputedDeposit ==
    \A acc \in AccountStates : \A tx \in TxIds :
        LET i == FirstWith(acc.deposits, tx)
            r == Account_apply(acc, [kind |-> "Resolve", tx |-> tx])
        IN  (i # 0 /\ acc.deposits[i].disputed) =>
              LET amt == acc.deposits[i].amount
              IN  IF amt > acc.held
                    THEN r.res = "InsufficientFunds"
                  ELSE IF acc.available + amt > MaxU
                    THEN r.res = "Arithmetic"
                  ELSE /\ r.res = "Ok"
                       /\ r.acc = [acc EXCEPT !.held = acc.held - amt,
                                              !.available = acc.available + amt,
                                              !.deposits[i].disputed = FALSE]

\* C6 witness: an account holding a disputed deposit whose amount is covered
\* by held but no longer fits available: its Resolve reports Arithmetic.
ResolveOverflowsAvailable ==
    \E c \in DOMAIN accounts : \E tx \in TxIds :
        LET acc == accounts[c]
            i == FirstWith(acc.deposits, tx)
        IN  /\ i # 0
            /\ acc.deposits[i].disputed
            /\ acc.deposits[i].amount > 0
            /\ acc.deposits[i].amount <= acc.held
            /\ Account_apply(acc, [kind |-> "Resolve", tx |-> tx]).res = "Arithmetic"

\* C7: a dispute-family transaction whose precondition does not hold is a
\* silent no-op: Dispute(tx) without an entry for tx or with the entry
\* already disputed, Resolve(tx) and Chargeback(tx) without an entry for tx
\* or with the entry not disputed, return Ok and leave the account as it was.
UnmetPreconditionIsNoOp ==
    \A acc \in AccountStates : \A tx \in TxIds :
        LET i == FirstWith(acc.deposits, tx)
            NoOp(kind) ==
                Account_apply(acc, [kind |-> kind, tx |-> tx]) = [acc |-> acc, res |-> "Ok"]
        IN  /\ (i = 0 \/ acc.deposits[i].disputed) => NoOp("Dispute")
            /\ (i = 0 \/ ~acc.deposits[i].disputed) => NoOp("Resolve") /\ NoOp("Chargeback")

\* C7 witness: an unlocked account with funds on hold, one deposit under
\* dispute (a second Dispute of it is the no-op) and one open deposit (its
\* Resolve and its Chargeback are the no-ops).
OpenAndDisputedDeposits ==
    \E c \in DOMAIN accounts :
        LET acc == accounts[c]
        IN  /\ ~acc.locked
            /\ acc.held > 0
            /\ \E i, j \in 1 .. Len(acc.deposits) :
                  /\ acc.deposits[i].disputed
                  /\ ~acc.deposits[j].disputed
                  /\ acc.deposits[j].amount <= acc.held
                  /\ FirstWith(acc.deposits, acc.deposits[i].tx) = i
                  /\ FirstWith(acc.deposits, acc.deposits[j].tx) = j

\* C8: Withdrawal(tx, amt) returns Ok exactly when amt <= available and then
\* decreases available by amt; otherwise it returns InsufficientFunds and
\* available is unchanged.  Either way held, locked and the deposit log are
\* unchanged: no entry is appended, and a Dispute of a tx that only the
\* withdrawal carries (no entry of the log has it) is a no-op.
WithdrawalDebitsAvailableOnly ==
    \A acc \in AccountStates : \A tx \in TxIds : \A amt \in Amounts :
        LET r == Account_apply(acc, [kind |-> "Withdrawal", tx |-> tx, amount |-> amt])
            later == Account_apply(r.acc, [kind |-> "Dispute", tx |-> tx])
        IN  /\ r.res = "Ok" <=> amt <= acc.available
            /\ r.res = "Ok" => r.acc = [acc EXCEPT !.available = acc.available - amt]
            /\ r.res # "Ok" => r.res = "InsufficientFunds" /\ r.acc = acc
            /\ r.acc.deposits = acc.deposits
            /\ FirstWith(acc.deposits, tx) = 0 =>
                  later = [acc |-> r.acc, res |-> "Ok"]

\* C8 witness: an account that was never disputed whose available funds are
\* below the sum of its deposits (a withdrawal has been paid out), with a tx
\* no deposit carries, and too little left for the largest withdrawal.
WithdrawalPaidOut ==
    \E c \in DOMAIN accounts :
        LET acc == accounts[c]
        IN  /\ acc.held = 0
            /\ ~acc.locked
            /\ Len(acc.deposits) = 1
            /\ ~acc.deposits[1].disputed
            /\ 0 < acc.available
            /\ acc.available < acc.deposits[1].amount
            /\ \E tx \in TxIds : FirstWith(acc.deposits, tx) = 0
            /\ Account_apply(acc, [kind |-> "Withdrawal", tx |-> 1, amount |-> MaxU]).res
                   = "InsufficientFunds"

\* C9: Deposit(tx, amt) returns Ok exactly when available + amt fits the
\* unsigned range, and then increases available by amt and appends the entry
\* {tx, amt, disputed = false} at the end of the log, leaving held, locked
\* and the earlier entries unchanged; otherwise it returns Arithmetic and
\* appends nothing.  The outcome is the same whatever held and locked are:
\* it is that of the account with nothing on hold and not locked.
DepositCreditsAndLogs ==
    \A acc \in AccountStates : \A tx \in TxIds : \A amt \in Amounts :
        LET t == [kind |-> "Deposit", tx |-> tx, amount |-> amt]
            r == Account_apply(acc, t)
        IN  /\ r.res = "Ok" <=> acc.available + amt <= MaxU
            /\ r.res = "Ok" =>
                 r.acc = [acc EXCEPT
                            !.available = acc.available + amt,
                            !.deposits = acc.deposits \o
                                <<[tx |-> tx, amount |-> amt, disputed |-> FALSE]>>]
            /\ r.res # "Ok" => r.res = "Arithmetic" /\ r.acc = acc
            /\ LET o == Account_apply([acc EXCEPT !.held = 0, !.locked = FALSE], t)
               IN  /\ o.res = r.res
                   /\ o.acc.available = r.acc.available
                   /\ o.acc.deposits = r.acc.deposits
                   /\ o.acc.held = 0
                   /\ ~o.acc.locked

\* C9 witness: an account with the whole range on hold whose log ends
\* with an open deposit that is still available: the deposit was accepted
\* although available + held no longer fits.
DepositOnFullHold ==
    \E c \in DOMAIN accounts :
        LET acc == accounts[c]
            n == Len(acc.deposits)
        IN  /\ n >= 2
            /\ acc.held = MaxU
            /\ acc.deposits[1].disputed
            /\ ~acc.deposits[n].disputed
            /\ acc.deposits[n].amount > 0
            /\ acc.available = acc.deposits[n].amount

\* C10 as claimed: the deposit log of every reachable account holds at most
\* one entry for each tx value.
AtMostOneEntryPerTx ==
    \A c \in DOMAIN accounts :
        \A i, j \in 1 .. Len(accounts[c].deposits) :
            accounts[c].deposits[i].tx = accounts[c].deposits[j].tx => i = j

\* C10 amended: the log may hold several entries with one tx value, but at
\* most one of them, the first appended, is ever under dispute: the later
\* entries with that tx are never looked up.
OnlyFirstEntryPerTxDisputed ==
    \A c \in DOMAIN accounts :
        \A i \in 1 .. Len(accounts[c].deposits) :
            accounts[c].deposits[i].disputed =>
                FirstWith(accounts[c].deposits, accounts[c].deposits[i].tx) = i

\* C10 witness: a log with two entries of the same tx, both credited, the
\* first one under dispute and the second one open.
DuplicateTxLogged ==
    \E c \in DOMAIN accounts :
        LET acc == accounts[c]
        IN  \E i, j \in 1 .. Len(acc.deposits) :
              /\ i < j
              /\ acc.deposits[i].tx = acc.deposits[j].tx
              /\ acc.deposits[i].disputed
              /\ ~acc.deposits[j].disputed
              /\ acc.deposits[i].amount > 0
              /\ acc.deposits[j].amount > 0
              /\ acc.held = acc.deposits[i].amount

\* C11: a locked account still accepts transactions: on two accounts that
\* differ only in the locked flag, every transaction returns the same result
\* and produces the same available, held and deposit log; none is rejected
\* because locked is true.
LockedFlagIsNeverRead ==
    \A acc \in AccountStates : \A t \in Transaction :
        LET r == Account_apply(acc, t)
            o == Account_apply([acc EXCEPT !.locked = ~acc.locked], t)
        IN  /\ o.res = r.res
            /\ o.acc.available = r.acc.available
            /\ o.acc.held = r.acc.held
            /\ o.acc.deposits = r.acc.deposits

\* C11 witness: a locked account (a Chargeback has succeeded on it) with a
\* later, open deposit whose Dispute is accepted and moves its amount to held.
LockedAccountStillMoves ==
    \E p \in charged : \E tx \in TxIds :
        LET acc == accounts[p[1]]
            i == FirstWith(acc.deposits, tx)
            r == Account_apply(acc, [kind |-> "Dispute", tx |-> tx])
        IN  /\ acc.locked
            /\ i > p[2]
            /\ ~acc.deposits[i].disputed
            /\ acc.deposits[i].amount > 0
            /\ r.res = "Ok"
            /\ r.acc.held = acc.held + acc.deposits[i].amount

\* C12: apply_transaction(c, t) gets or creates: a client without an account
\* is first given one with available = 0, held = 0, locked = false and an
\* empty log; the call returns the result of Account::apply(t) on c's
\* account and leaves that account as Account::apply produces it.  No client
\* leaves the store, and c is in it afterwards also when the transaction
\* fails or does nothing.
ApplyTransactionGetsOrCreates ==
    \A c \in ClientIds : \A t \in Transaction :
        LET r == apply_transaction(accounts, c, t)
            base == IF c \in DOMAIN accounts THEN accounts[c]
                    ELSE [owner |-> c, available |-> 0, held |-> 0,
                          locked |-> FALSE, deposits |-> << >>]
            a == Account_apply(base, t)
        IN  /\ DOMAIN r.accounts = DOMAIN accounts \cup {c}
            /\ r.res = a.res
            /\ r.accounts[c] = a.acc

\* C12 witness: a store with the account of a client that has deposited and
\* the account of another client whose rows have all failed or done nothing:
\* it was created and is still new.
NewAccountKeptAfterFailure ==
    \E c1, c2 \in DOMAIN accounts :
        /\ c1 # c2
        /\ accounts[c1].deposits # << >>
        /\ accounts[c1].available > 0
        /\ accounts[c2] = [owner |-> c2, available |-> 0, held |-> 0,
                           locked |-> FALSE, deposits |-> << >>]
        /\ Account_apply(accounts[c2], [kind |-> "Withdrawal", tx |-> 1, amount |-> 1]).res
               = "InsufficientFunds"

\* C13: transactions of different clients are independent.
\* apply_transaction(c1, t1) leaves the account, or the absence, of every
\* other client as it was; and for c1 # c2 the rows (c1, t1), (c2, t2) give
\* the same store and the same two results in either order, also when t1 and
\* t2 name the same tx.
ClientsAreIndependent ==
    /\ \A c1 \in ClientIds : \A t1 \in Transaction :
          LET r == apply_transaction(accounts, c1, t1)
          IN  \A c2 \in ClientIds \ {c1} :
                 /\ c2 \in DOMAIN r.accounts <=> c2 \in DOMAIN accounts
                 /\ c2 \in DOMAIN accounts => r.accounts[c2] = accounts[c2]
    /\ \A c1, c2 \in ClientIds : c1 < c2 =>
          \A t1 \in StoreRows :
             LET a1 == apply_transaction(accounts, c1, t1)
             IN  \A t2 \in StoreRows :
                    LET a2 == apply_transaction(a1.accounts, c2, t2)
                        b2 == apply_transaction(accounts, c2, t2)
                        b1 == apply_transaction(b2.accounts, c1, t1)
                    IN  /\ a2.accounts = b1.accounts
                        /\ a1.res = b1.res
                        /\ a2.res = b2.res

\* C13 witness: two clients each holding a deposit with the same tx, one
\* under dispute and the other open.
SameTxInTwoAccounts ==
    \E c1, c2 \in DOMAIN accounts :
        /\ c1 # c2
        /\ Len(accounts[c1].deposits) = 1
        /\ Len(accounts[c2].deposits) = 1
        /\ accounts[c1].deposits[1].tx = accounts[c2].deposits[1].tx
        /\ accounts[c1].deposits[1].disputed
        /\ accounts[c1].held = 1
        /\ ~accounts[c2].deposits[1].disputed
        /\ accounts[c2].available = 1

\* C14: Amount arithmetic is checked against the unsigned W-bit range.  For
\* every balance a of a reachable account and every amount b, add returns
\* a + b exactly when a + b <= 2^W - 1 and Arithmetic otherwise, sub returns
\* the difference exactly when the subtrahend is not the larger and
\* Arithmetic otherwise; a wrapped value is never returned.
AmountArithmeticIsChecked ==
    \A acc \in AccountStates : \A a \in {acc.available, acc.held} : \A b \in Amounts :
        LET Exact(r, ok, v) ==
                IF ok THEN r.err = "None" /\ r.val = v
                ELSE r.err = "Arithmetic"
        IN  /\ Exact(Amount_add(a, b), a + b <= 2 ^ W - 1, a + b)
            /\ Exact(Amount_add(b, a), a + b <= 2 ^ W - 1, a + b)
            /\ Exact(Amount_sub(a, b), b <= a, a - b)
            /\ Exact(Amount_sub(b, a), a <= b, b - a)

\* C14 witness: an account whose available funds are the largest amount,
\* with nothing on hold: adding one unit to available overflows and
\* subtracting available from held underflows.
BalancesAtBothEnds ==
    \E c \in DOMAIN accounts :
        LET acc == accounts[c]
        IN  /\ acc.available = 2 ^ W - 1
            /\ acc.held = 0
            /\ Amount_add(acc.available, 1).err = "Arithmetic"
            /\ Amount_sub(acc.held, acc.available).err = "Arithmetic"
            /\ Amount_sub(acc.available, acc.available) = [err |-> "None", val |-> 0]

\* C15: a Dispute(tx) that succeeds in disputing an entry, immediately
\* followed by Resolve(tx) on the same account: the Resolve succeeds and the
\* account is exactly the one before the Dispute (available, held, locked
\* and the log, the entry open again).
DisputeThenResolveRestores ==
    \A acc \in AccountStates : \A tx \in TxIds :
        LET i == FirstWith(acc.deposits, tx)
            d == Account_apply(acc, [kind |-> "Dispute", tx |-> tx])
            r == Account_apply(d.acc, [kind |-> "Resolve", tx |-> tx])
        IN  (i # 0 /\ ~acc.deposits[i].disputed /\ d.res = "Ok") =>
                /\ d.acc.deposits[i].disputed
                /\ d.acc # acc
                /\ r.res = "Ok"
                /\ r.acc = acc

\* C15 witness: an account with funds already on hold for one entry in
\* which the Dispute of another entry succeeds and the Resolve undoes it.
DisputeUndoneNextToOpenDispute ==
    \E c \in DOMAIN accounts : \E tx \in TxIds :
        LET acc == accounts[c]
            i == FirstWith(acc.deposits, tx)
            d == Account_apply(acc, [kind |-> "Dispute", tx |-> tx])
            r == Account_apply(d.acc, [kind |-> "Resolve", tx |-> tx])
        IN  /\ acc.held > 0
            /\ i # 0 /\ ~acc.deposits[i].disputed /\ acc.deposits[i].amount > 0
            /\ d.res = "Ok" /\ d.acc.held > acc.held
            /\ r.res = "Ok" /\ r.acc = acc

\* C16: the deposit log is append-only except for the disputed flag.  For
\* every call on a reachable account: the entries already logged keep their
\* place, tx and amount; the log grows only by a successful Deposit, by one
\* entry at the end; a disputed flag changes only by a successful Dispute
\* (false to true) or a successful Resolve (true to false).
LogIsAppendOnly ==
    \A acc \in AccountStates : \A t \in Transaction :
        LET r == Account_apply(acc, t)
            old == acc.deposits
            new == r.acc.deposits
        IN  /\ Len(new) >= Len(old)
            /\ \A i \in 1..Len(old) :
                  /\ new[i].tx = old[i].tx
                  /\ new[i].amount = old[i].amount
                  /\ new[i].disputed # old[i].disputed =>
                        /\ r.res = "Ok"
                        /\ t.kind \in {"Dispute", "Resolve"}
                        /\ new[i].disputed <=> t.kind = "Dispute"
            /\ IF t.kind = "Deposit" /\ r.res = "Ok"
               THEN /\ Len(new) = Len(old) + 1
                    /\ new[Len(new)] =
                          [tx |-> t.tx, amount |-> t.amount, disputed |-> FALSE]
               ELSE Len(new) = Len(old)

\* C16 witness: a log of two entries, the first disputed and the second
\* open, in which a Deposit appends a third entry and a Resolve toggles the
\* flag of the first.
TwoEntriesFirstDisputed ==
    \E c \in DOMAIN accounts :
        LET acc == accounts[c]
            dep == Account_apply(acc, [kind |-> "Deposit", tx |-> acc.deposits[1].tx,
                                       amount |-> 0])
            res == Account_apply(acc, [kind |-> "Resolve", tx |-> acc.deposits[1].tx])
        IN  /\ Len(acc.deposits) = 2
            /\ acc.deposits[1].disputed /\ ~acc.deposits[2].disputed
            /\ dep.res = "Ok" /\ Len(dep.acc.deposits) = 3
            /\ res.res = "Ok" /\ ~res.acc.deposits[1].disputed

\* C17: deposits that share a tx.  A Deposit whose tx is already in the log
\* is credited to available like any other.  For an entry j that is not the
\* first with its tx: its disputed flag is false, and a Dispute, Resolve or
\* Chargeback of that tx leaves entry j as it is and moves the amount of the
\* first entry i with that tx, or nothing at all.
DuplicateTxActsOnFirstEntry ==
    \A acc \in AccountStates :
        /\ \A t \in Transaction :
              (t.kind = "Deposit" /\ FirstWith(acc.deposits, t.tx) # 0) =>
                  LET r == Account_apply(acc, t)
                  IN  IF acc.available + t.amount <= 2 ^ W - 1
                      THEN /\ r.res = "Ok"
                           /\ r.acc.available = acc.available + t.amount
                           /\ Len(r.acc.deposits) = Len(acc.deposits) + 1
                      ELSE r.res = "Arithmetic" /\ r.acc = acc
        /\ \A j \in 1 .. Len(acc.deposits) :
              LET tx == acc.deposits[j].tx
                  i == FirstWith(acc.deposits, tx)
                  amount == acc.deposits[i].amount
              IN  i < j =>
                    /\ ~acc.deposits[j].disputed
                    /\ \A kind \in {"Dispute", "Resolve", "Chargeback"} :
                          LET r == Account_apply(acc, [kind |-> kind, tx |-> tx])
                          IN  /\ \A k \in 1 .. Len(acc.deposits) :
                                    k # i => r.acc.deposits[k] = acc.deposits[k]
                              /\ \/ r.acc = acc
                                 \/ /\ kind = "Dispute"
                                    /\ r.acc.held = acc.held + amount
                                    /\ r.acc.available = acc.available - amount
                                 \/ /\ kind = "Resolve"
                                    /\ r.acc.held = acc.held - amount
                                    /\ r.acc.available = acc.available + amount
                                 \/ /\ kind = "Chargeback"
                                    /\ r.acc.held = acc.held - amount
                                    /\ r.acc.available = acc.available

\* C17 witness: two entries with one tx and different amounts, both
\* credited, the first disputed: held is the first amount, a second Dispute
\* of that tx changes nothing and a Chargeback takes the first amount.
SecondEntryLeftOut ==
    \E c \in DOMAIN accounts :
        LET acc == accounts[c]
            tx == acc.deposits[1].tx
            d == Account_apply(acc, [kind |-> "Dispute", tx |-> tx])
            cb == Account_apply(acc, [kind |-> "Chargeback", tx |-> tx])
        IN  /\ Len(acc.deposits) = 2
            /\ acc.deposits[2].tx = tx
            /\ acc.deposits[1].amount # acc.deposits[2].amount
            /\ acc.deposits[2].amount > 0
            /\ acc.deposits[1].disputed
            /\ acc.held = acc.deposits[1].amount
            /\ acc.available = acc.deposits[2].amount
            /\ d.res = "Ok" /\ d.acc = acc
            /\ cb.res = "Ok" /\ cb.acc.held = 0 /\ ~cb.acc.deposits[2].disputed

\* C18: the locked flag is monotonic.  A new account is unlocked; an account
\* is locked exactly when a Chargeback has succeeded on one of its entries;
\* a call that locks an account is a Chargeback returning Ok on a disputed
\* entry; a locked account is locked after every call, failed or not.
LockedIsMonotonic ==
    /\ \A c \in ClientIds : ~Account_new(c).locked
    /\ \A c \in DOMAIN accounts :
          accounts[c].locked <=> \E p \in charged : p[1] = c
    /\ \A acc \in AccountStates : \A t \in Transaction :
          LET r == Account_apply(acc, t)
              i == FirstWith(acc.deposits, t.tx)
          IN  /\ acc.locked => r.acc.locked
              /\ (~acc.locked /\ r.acc.locked) =>
                    /\ t.kind = "Chargeback"
                    /\ r.res = "Ok"
                    /\ i # 0
                    /\ acc.deposits[i].disputed

\* C18 witness: an account locked by a Chargeback on which a Deposit
\* succeeds, a Withdrawal fails and a Resolve of the charged entry is
\* accepted, the account staying locked after each.
LockedAfterLaterCalls ==
    \E p \in charged :
        LET acc == accounts[p[1]]
            tx == acc.deposits[p[2]].tx
            dep == Account_apply(acc, [kind |-> "Deposit", tx |-> tx, amount |-> 1])
            wd == Account_apply(acc, [kind |-> "Withdrawal", tx |-> tx,
                                      amount |-> 2 ^ W - 1])
            rs == Account_apply(acc, [kind |-> "Resolve", tx |-> tx])
        IN  /\ acc.locked
            /\ dep.res = "Ok" /\ dep.acc.locked
            /\ wd.res = "InsufficientFunds" /\ wd.acc.locked
            /\ rs.res = "Ok" /\ rs.acc # acc /\ rs.acc.locked

\* C19: funds are conserved.  In every reachable state and for every
\* account, available + held as an integer is the amounts of the successful
\* Deposits minus the amounts of the successful Withdrawals minus the
\* deposit amounts removed by the successful Chargebacks; a Dispute or a
\* Resolve never changes available + held, and a failed call changes it
\* neither.
FundsAreConserved ==
    /\ \A c \in DOMAIN accounts :
          accounts[c].available + accounts[c].held = ledger[c]
    /\ \A c \in ClientIds \ DOMAIN accounts : ledger[c] = 0
    /\ \A acc \in AccountStates : \A t \in Transaction :
          LET r == Account_apply(acc, t)
          IN  (t.kind \in {"Dispute", "Resolve"} \/ r.res # "Ok") =>
                  r.acc.available + r.acc.held = acc.available + acc.held

\* C19 witness: an account that has seen two deposits, a withdrawal and a
\* chargeback of the first deposit, with funds left: what is left is the
\* second deposit less the withdrawal, too little for a Dispute of the
\* second deposit, which fails and changes nothing.
DepositedWithdrawnChargedBack ==
    \E c \in DOMAIN accounts :
        LET acc == accounts[c]
            d == Account_apply(acc, [kind |-> "Dispute", tx |-> acc.deposits[2].tx])
        IN  /\ Len(acc.deposits) = 2
            /\ <<c, 1>> \in charged
            /\ acc.deposits[1].amount > 0
            /\ acc.deposits[1].tx # acc.deposits[2].tx
            /\ ~acc.deposits[2].disputed
            /\ acc.held = 0
            /\ ledger[c] > 0
            /\ ledger[c] < acc.deposits[2].amount
            /\ acc.available = ledger[c]
            /\ d.res = "InsufficientFunds" /\ d.acc = acc

\* The sum of the amounts of the entries of a log that are disputed.
RECURSIVE DisputedSum(_)
DisputedSum(deposits) ==
    IF deposits = << >> THEN 0
    ELSE (IF Head(deposits).disputed THEN Head(deposits).amount ELSE 0)
            + DisputedSum(Tail(deposits))

\* C20: in every reachable account state held is at most the sum of the
\* amounts of the disputed entries; in an account on which no Chargeback
\* has succeeded held is that sum, and there the Resolve of a disputed
\* deposit never fails with InsufficientFunds.
HeldIsWithinDisputedSum ==
    \A c \in DOMAIN accounts :
        LET acc == accounts[c]
        IN  /\ acc.held <= DisputedSum(acc.deposits)
            /\ (\A p \in charged : p[1] # c) =>
                  /\ acc.held = DisputedSum(acc.deposits)
                  /\ \A tx \in TxIds :
                        LET i == FirstWith(acc.deposits, tx)
                        IN  (i # 0 /\ acc.deposits[i].disputed) =>
                               Account_apply(acc, [kind |-> "Resolve", tx |-> tx]).res
                                  # "InsufficientFunds"

\* C20 witness: an account without a chargeback whose two deposits are both
\* disputed: held is the sum of the two amounts and the Resolve of the
\* second releases its amount.
TwoDisputesHeld ==
    \E c \in DOMAIN accounts :
        LET acc == accounts[c]
            r == Account_apply(acc, [kind |-> "Resolve", tx |-> acc.deposits[2].tx])
        IN  /\ \A p \in charged : p[1] # c
            /\ Len(acc.deposits) = 2
            /\ acc.deposits[1].disputed /\ acc.deposits[2].disputed
            /\ acc.deposits[1].amount > 0 /\ acc.deposits[2].amount > 0
            /\ acc.held = acc.deposits[1].amount + acc.deposits[2].amount
            /\ r.res = "Ok"
            /\ r.acc.held = acc.deposits[1].amount

====
